---- MODULE Spec2Model ----
(***************************************************************************)
(* Model of src/mavsdk/core/log.h: the scope-bound log record LogDetailed, *)
(* the file sink selection set_log_file / get_log_stream and the statics   *)
(* log_mutex_ and log_file they share.                                     *)
(*                                                                         *)
(* log.h is a header.  log_mutex_ and log_file are declared `static` at    *)
(* namespace scope, so every translation unit that includes log.h owns a   *)
(* copy of each.  The functions that use them are inline functions with    *)
(* external linkage: a call either runs the copy inlined at the call site  *)
(* (and touches the statics of the calling translation unit) or the one    *)
(* out-of-line copy the linker kept (and touches the statics of the        *)
(* translation unit that copy came from).  The build decides; the model    *)
(* draws that decision in Init (variable link).                            *)
(***************************************************************************)
EXTENDS Integers, Sequences, FiniteSets, TLC

\* ------------------------------------------------------------------ bounds
NumThreads == 2
MaxCalls == 2
MaxPath == 6

Threads == 1..NumThreads
NoThread == 0

\* ------------------------------------------------- translation units, paths
TUs == {"tu1", "tu2", "tu3"}

\* __FILE__ of each translation unit, as a sequence of characters.
FILE(tu) ==
    CASE tu = "tu1" -> <<"/", "a", "/", "b", "/", "c">>
      [] tu = "tu2" -> <<"c">>
      [] OTHER      -> <<"a", "/", "d">>

RECURSIVE strchr(_, _, _)
\* Index of the first occurrence of ch in the first n characters of str; 0 if none.
strchr(str, ch, n) ==
    IF n = 0 THEN 0
    ELSE IF strchr(str, ch, n - 1) # 0 THEN strchr(str, ch, n - 1)
    ELSE IF str[n] = ch THEN n
    ELSE 0

RECURSIVE strrchr(_, _, _)
\* Index of the last occurrence of ch in the first n characters of str; 0 if none.
strrchr(str, ch, n) ==
    IF n = 0 THEN 0
    ELSE IF str[n] = ch THEN n
    ELSE strrchr(str, ch, n - 1)

\* The build defines WINDOWS (log.h:19).
VARIABLE WINDOWS

\* log.h:19-25: without WINDOWS,
\* (strrchr(__FILE__, '/') ? strrchr(__FILE__, '/') + 1 : __FILE__);
\* with WINDOWS, __FILE__.
FILENAME(file) ==
    IF ~WINDOWS
    THEN IF strrchr(file, "/", Len(file)) # 0
         THEN SubSeq(file, strrchr(file, "/", Len(file)) + 1, Len(file))
         ELSE file
    ELSE file

Funcs == {"LogDetailed", "set_log_file", "get_log_stream"}
Inlined == "inlined"
\* The unit first in link order: the linker keeps its copy of an inline
\* function that was not inlined at a call site.
FirstTU == "tu1"


\* Paths given to set_log_file, and which of them the file system can open.
Paths == {"p", "q", "bad"}
Openable == {"p", "q"}
NoPath == "none"

\* The set_log_file statements of the application: the unit of the call site
\* and the path passed.
SetSites == {[tu |-> "tu1", path |-> "p"], [tu |-> "tu1", path |-> "q"],
             [tu |-> "tu1", path |-> "bad"], [tu |-> "tu2", path |-> "q"]}

\* The builds: the console/file target, with and without WINDOWS, with every
\* way of linking the inline functions, and the ANDROID target.
Builds ==
    {[WINDOWS |-> w, ANDROID |-> FALSE, link |-> l] :
        w \in BOOLEAN, l \in [Funcs -> {Inlined, FirstTU}]}
    \cup {[WINDOWS |-> FALSE, ANDROID |-> TRUE, link |-> [f \in Funcs |-> Inlined]]}

Levels == {"Debug", "Info", "Warn", "Err"}

\* Values streamed into a record: text and integers.
Txt(txt) == [kind |-> "str", str |-> txt, int |-> 0]
Num(i) == [kind |-> "int", str |-> <<>>, int |-> i]

\* The log statements of the application: the unit and line of the call
\* site, the entry point used and the values streamed into the record.
CallSites ==
    {[tu |-> "tu1", line |-> 42, level |-> "Info",  values |-> <<Txt(<<"starting">>)>>],
     [tu |-> "tu2", line |-> 7,  level |-> "Debug", values |-> <<Txt(<<"x=">>), Num(17)>>],
     [tu |-> "tu3", line |-> 130, level |-> "Warn", values |-> <<Num(5), Txt(<<"%">>)>>],
     [tu |-> "tu1", line |-> 9,  level |-> "Err",   values |-> <<>>]}
SitesOf(level) == {c \in CallSites : c.level = level}

Digit(d) == CASE d = 0 -> "0" [] d = 1 -> "1" [] d = 2 -> "2" [] d = 3 -> "3"
              [] d = 4 -> "4" [] d = 5 -> "5" [] d = 6 -> "6" [] d = 7 -> "7"
              [] d = 8 -> "8" [] OTHER -> "9"

RECURSIVE Dec(_)
\* Decimal text of a natural number (std::dec insertion into a stream).
Dec(n) == IF n < 10 THEN <<Digit(n)>> ELSE Dec(n \div 10) \o <<Digit(n % 10)>>

\* Text a stringstream produces for an inserted value.
ToText(x) == IF x.kind = "int" THEN Dec(x.int) ELSE x.str

\* strftime(time_buffer, 10, "%I:%M:%S", localtime(&rawtime)): 12-hour clock,
\* every field two digits wide.
Times == {[h |-> 13, m |-> 5, s |-> 9]}
Two(n) == IF n < 10 THEN <<"0">> \o Dec(n) ELSE Dec(n)
Hour12(h) == IF h % 12 = 0 THEN 12 ELSE h % 12
strftime(tm) == Two(Hour12(tm.h)) \o <<":">> \o Two(tm.m) \o <<":">> \o Two(tm.s)

\* ------------------------------------------------------------------- state
VARIABLES
    ANDROID,     \* the build defines ANDROID (platform log branch of the destructor)
    platform_log, \* entries __android_log_print received
    link,        \* per inline function: "inlined", or the unit whose copy the linker kept
    log_mutex_,  \* per translation unit: the thread that owns its log_mutex_, or NoThread
    log_file,    \* per translation unit: its std::ofstream (open path, failbit)
    disk,        \* contents of the files, as the sequence of fragments written
    console,     \* what std::cout received, as the sequence of fragments written
    unflushed,   \* streams with output written since their last flush
    color,       \* the console color set_color last selected
    callback,    \* the registered interception function (log::get_callback())
    cb_calls,    \* every invocation of the interception function, in order
    pc,          \* per thread: where it is
    rec,         \* per thread: the LogDetailed object it has in scope
    slf,         \* per thread: the set_log_file call it is in
    sets,        \* history: the set_log_file calls that have returned, in order
    log,         \* history: the records whose dispatch has begun, by record id
    made,        \* history: the call site of every record constructed, by record id
    ncalls,      \* calls the application has made so far
    aborted,     \* std::terminate was called
    call_file,   \* __FILE__ where a log entry point macro is expanded
    filename     \* what the macro passes as filename: FILENAME evaluated there

vars == <<WINDOWS, call_file, filename, ANDROID, platform_log, link, log_mutex_,
          log_file, disk, console, unflushed, color, callback,
          cb_calls, pc, rec, slf, sets, log, made, ncalls, aborted>>

\* Threads that are not in a call are interchangeable: the next log statement
\* or set_log_file call is made by the lowest of them.
Caller(t) == pc[t] = "idle" /\ \A u \in Threads : u < t => pc[u] # "idle"

\* The translation unit whose statics a call of f made from tu touches.
Resolve(f, tu) == IF link[f] = Inlined THEN tu ELSE link[f]

Cout == "cout"
NoRec == [id |-> 0, tu |-> "tu1", level |-> "Debug", s |-> <<>>, todo |-> <<>>,
          values |-> <<>>,
          file |-> <<>>, line |-> 0, lockm |-> "tu1", stage |-> 0]
NoCall == [m |-> "tu1", tu |-> "tu1", path |-> NoPath]
Closed == [path |-> NoPath, failbit |-> FALSE]

\* Content a file may hold before the process starts.
Old == [rec |-> 0, part |-> "old", txt |-> <<"old">>]

\* No log entry point macro has been expanded on its own.
NoFile == <<>>
NotCaptured == [set |-> FALSE, str |-> <<>>]

\* The state of the process at its start, whatever the build.
InitProcess ==
    /\ platform_log = <<>>
    /\ log_mutex_ = [u \in TUs |-> NoThread]
    /\ log_file = [u \in TUs |-> Closed]
    /\ disk = [p \in Openable |-> IF p = "p" THEN <<Old>> ELSE <<>>]
    /\ console = <<>>
    /\ unflushed = {}
    /\ color = "Reset"
    /\ callback = "none"
    /\ cb_calls = <<>>
    /\ pc = [t \in Threads |-> "idle"]
    /\ rec = [t \in Threads |-> NoRec]
    /\ slf = [t \in Threads |-> NoCall]
    /\ sets = <<>>
    /\ log = <<>>
    /\ made = <<>>
    /\ ncalls = 0
    /\ aborted = FALSE

Init ==
    /\ \E b \in Builds : WINDOWS = b.WINDOWS /\ ANDROID = b.ANDROID /\ link = b.link
    /\ InitProcess
    /\ call_file = NoFile
    /\ filename = NotCaptured

\* ------------------------------------------------------------ the streams
\* std::ofstream::open(path, out | app): fails (failbit) on a stream that is
\* already open and leaves it on its file; otherwise opens path if the file
\* system allows it, clearing the state on success.
ofstream_open(f, path) ==
    IF f.path # NoPath THEN [f EXCEPT !.failbit = TRUE]
    ELSE IF path \in Openable THEN [path |-> path, failbit |-> FALSE]
    ELSE [path |-> NoPath, failbit |-> TRUE]

is_open(f) == f.path # NoPath

\* The fragments a notice or a line part consists of.
Frag(id, part, txt) == [rec |-> id, part |-> part, txt |-> txt]

\* Insertion of a fragment into a stream: std::cout, or the log_file of unit
\* st.  A stream whose failbit is set drops what is inserted.  A file opened
\* with std::ios::app receives it at its end.
WriteTo(st, fr) ==
    IF st = Cout
    THEN /\ console' = Append(console, fr)
         /\ disk' = disk
         /\ unflushed' = unflushed \cup {Cout}
    ELSE IF log_file[st].failbit \/ ~is_open(log_file[st])
    THEN UNCHANGED <<console, disk, unflushed>>
    ELSE /\ disk' = [disk EXCEPT ![log_file[st].path] = Append(@, fr)]
         /\ console' = console
         /\ unflushed' = unflushed \cup {st}

\* ------------------------------------------------------------ set_log_file
\* log.h:41-42: the call takes the lock_guard on log_mutex_.
set_log_file_lock(t, tu, path) ==
    /\ ~aborted
    /\ Caller(t)
    /\ ncalls < MaxCalls
    /\ log_mutex_[Resolve("set_log_file", tu)] = NoThread
    /\ log_mutex_' = [log_mutex_ EXCEPT ![Resolve("set_log_file", tu)] = t]
    /\ slf' = [slf EXCEPT ![t] = [m |-> Resolve("set_log_file", tu), tu |-> tu,
                                 path |-> path]]
    /\ pc' = [pc EXCEPT ![t] = "set_log_file"]
    /\ ncalls' = ncalls + 1
    /\ UNCHANGED <<WINDOWS, call_file, filename>>
    /\ UNCHANGED <<ANDROID, platform_log, link, log_file, disk, console, unflushed,
                   color, callback, cb_calls, rec, sets, log, made, aborted>>

\* The notices of one set_log_file call, given the stream after open().
Notices(f, path) ==
    (IF ~is_open(f) THEN <<Frag(0, "failed", <<"Failed to open log file: ", path, "\n">>)>>
     ELSE <<>>)
    \o <<Frag(0, "opened", <<"Opened log file: ", path, "\n">>)>>

\* log.h:43-48: open, the notices (each ended by std::endl), unlock.
set_log_file(t) ==
    /\ ~aborted
    /\ pc[t] = "set_log_file"
    /\ LET m == slf[t].m
           f == ofstream_open(log_file[m], slf[t].path)
       IN /\ log_file' = [log_file EXCEPT ![m] = f]
          /\ console' = console \o Notices(f, slf[t].path)
          /\ unflushed' = unflushed \ {Cout}
          /\ sets' = Append(sets, [tu |-> slf[t].tu, m |-> m, path |-> slf[t].path,
                                    before |-> log_file[m], after |-> f,
                                    notices |-> Notices(f, slf[t].path)])
          /\ log_mutex_' = [log_mutex_ EXCEPT ![m] = NoThread]
    /\ slf' = [slf EXCEPT ![t] = NoCall]
    /\ pc' = [pc EXCEPT ![t] = "idle"]
    /\ UNCHANGED <<WINDOWS, call_file, filename>>
    /\ UNCHANGED <<ANDROID, platform_log, link, disk, color, callback, cb_calls, rec,
                   log, made, ncalls, aborted>>

\* ------------------------------------------------------------- LogDetailed
\* log.h:67-72 and the derived constructors 176-206: _lock_guard(log_mutex_)
\* blocks until the mutex is free; the record then holds it.  The derived
\* class sets _log_level.
Construct(t, c, level) ==
    /\ ~aborted
    /\ Caller(t)
    /\ ncalls < MaxCalls
    /\ log_mutex_[Resolve("LogDetailed", c.tu)] = NoThread
    /\ log_mutex_' = [log_mutex_ EXCEPT ![Resolve("LogDetailed", c.tu)] = t]
    /\ rec' = [rec EXCEPT ![t] = [id |-> Len(made) + 1, tu |-> c.tu, level |-> level,
                                 s |-> <<>>, todo |-> c.values, values |-> c.values,
                                 file |-> FILENAME(FILE(c.tu)), line |-> c.line,
                                 lockm |-> Resolve("LogDetailed", c.tu),
                                 stage |-> 0]]
    /\ made' = Append(made, c)
    /\ ncalls' = ncalls + 1
    /\ pc' = [pc EXCEPT ![t] = "open"]
    /\ UNCHANGED <<WINDOWS, call_file, filename>>
    /\ UNCHANGED <<ANDROID, platform_log, link, log_file, disk, console, unflushed,
                   color, callback, cb_calls, slf, sets, log, aborted>>

LogDebugDetailed(t, c) == Construct(t, c, "Debug")
LogInfoDetailed(t, c) == Construct(t, c, "Info")
LogWarnDetailed(t, c) == Construct(t, c, "Warn")
LogErrDetailed(t, c) == Construct(t, c, "Err")

\* A buffer that would put the text of x in front of what it holds.
stream_insert_in_front(s, x) == ToText(x) \o s

\* log.h:76 _s << x: the text of x is put at the end of the buffer.
stream_insert(s, x) == s \o ToText(x)

\* log.h:74-78 operator<<, for the next value of the statement.
Insert(t) ==
    /\ ~aborted
    /\ pc[t] = "open"
    /\ rec[t].todo # <<>>
    /\ rec' = [rec EXCEPT ![t].s = stream_insert(@, Head(rec[t].todo)),
                          ![t].todo = Tail(@)]
    /\ UNCHANGED <<WINDOWS, call_file, filename>>
    /\ UNCHANGED <<ANDROID, platform_log, link, log_mutex_, log_file, disk, console,
                   unflushed, color, callback, cb_calls, pc, slf, sets, log, made,
                   ncalls, aborted>>

\* End of the destructor: the member _lock_guard is destroyed and unlocks the
\* mutex it locked; the record is gone.
Release(t) ==
    /\ log_mutex_' = [log_mutex_ EXCEPT ![rec[t].lockm] = NoThread]
    /\ rec' = [rec EXCEPT ![t] = NoRec]
    /\ pc' = [pc EXCEPT ![t] = "idle"]

\* What the destructor does after the interception did not handle the record:
\* the platform log branch, or the first step of the console branch.
AfterCallback(t) == IF ANDROID THEN "platform" ELSE "set_color"

\* log.h:88 first operand: log::get_callback() tested for presence.  The
\* record's scope has ended: its dispatch begins.
DtorCheck(t) ==
    /\ ~aborted
    /\ pc[t] = "open"
    /\ rec[t].todo = <<>>
    /\ log' = Append(log, [id |-> rec[t].id, seen |-> Len(sets),
                           present |-> callback # "none", fn |-> callback])
    /\ pc' = [pc EXCEPT ![t] = IF callback # "none" THEN "invoke" ELSE AfterCallback(t)]
    /\ UNCHANGED <<WINDOWS, call_file, filename>>
    /\ UNCHANGED <<ANDROID, platform_log, link, log_mutex_, log_file, disk, console,
                   unflushed, color, callback, cb_calls, rec, slf, sets, made, ncalls,
                   aborted>>

\* log.h:89 second operand: log::get_callback() is fetched again and invoked
\* with (_log_level, _s.str(), _caller_filename, _caller_filenumber).
\* Invoking an empty std::function throws std::bad_function_call out of the
\* destructor, which is noexcept: std::terminate.
DtorInvoke(t) ==
    /\ ~aborted
    /\ pc[t] = "invoke"
    /\ IF callback = "none"
       THEN /\ aborted' = TRUE
            /\ pc' = [pc EXCEPT ![t] = "bad_function_call"]
            /\ UNCHANGED <<cb_calls, log_mutex_, rec>>
       ELSE /\ cb_calls' = Append(cb_calls, [id |-> rec[t].id, level |-> rec[t].level,
                                            message |-> rec[t].s, file |-> rec[t].file,
                                            line |-> rec[t].line,
                                            handled |-> callback = "handled"])
            /\ aborted' = aborted
            /\ IF callback = "handled"
               THEN Release(t)
               ELSE /\ pc' = [pc EXCEPT ![t] = AfterCallback(t)]
                    /\ UNCHANGED <<log_mutex_, rec>>
    /\ UNCHANGED <<WINDOWS, call_file, filename>>
    /\ UNCHANGED <<ANDROID, platform_log, link, log_file, disk, console, unflushed,
                   color, callback, slf, sets, log, made, ncalls>>

\* log.h:93-111 (#if ANDROID): one __android_log_print with the priority of
\* the level, the tag "Mavsdk" and _s.str(); then the destructor ends.
\* A switch whose Warn case uses the priority of Info.
PriorityWarnAsInfo(level) ==
    CASE level = "Debug" -> "ANDROID_LOG_DEBUG"
      [] level = "Info"  -> "ANDROID_LOG_INFO"
      [] level = "Warn"  -> "ANDROID_LOG_INFO"
      [] OTHER           -> "ANDROID_LOG_ERROR"

Priority(level) ==
    CASE level = "Debug" -> "ANDROID_LOG_DEBUG"
      [] level = "Info"  -> "ANDROID_LOG_INFO"
      [] level = "Warn"  -> "ANDROID_LOG_WARN"
      [] OTHER           -> "ANDROID_LOG_ERROR"

DtorPlatform(t) ==
    /\ ~aborted
    /\ pc[t] = "platform"
    /\ platform_log' = Append(platform_log, [id |-> rec[t].id, tag |-> "Mavsdk",
                                            prio |-> Priority(rec[t].level),
                                            text |-> rec[t].s])
    /\ Release(t)
    /\ UNCHANGED <<WINDOWS, call_file, filename>>
    /\ UNCHANGED <<ANDROID, link, log_file, disk, console, unflushed, color, callback,
                   cb_calls, slf, sets, log, made, ncalls, aborted>>

\* log.h:113-126: the color of the level.
LevelColor(level) ==
    CASE level = "Debug" -> "Green"
      [] level = "Info"  -> "Blue"
      [] level = "Warn"  -> "Yellow"
      [] OTHER           -> "Red"

\* set_color(color) (declared log.h:63): the escape sequence of the color is
\* written to the console, which shows what follows in that color.
set_color(c) == color' = c

\* log.h:113-126
DtorSetColor(t) ==
    /\ ~aborted
    /\ pc[t] = "set_color"
    /\ set_color(LevelColor(rec[t].level))
    /\ rec' = [rec EXCEPT ![t].stage = 1]
    /\ pc' = [pc EXCEPT ![t] = "write"]
    /\ UNCHANGED <<WINDOWS, call_file, filename>>
    /\ UNCHANGED <<ANDROID, platform_log, link, log_mutex_, log_file, disk, console,
                   unflushed, callback, cb_calls, slf, sets, log, made, ncalls,
                   aborted>>

\* log.h:50-57 get_log_stream called from unit tu: under the lock_guard on
\* log_mutex_, a reference to log_file if it is open, else to std::cout.
get_log_stream(tu) ==
    IF is_open(log_file[Resolve("get_log_stream", tu)])
    THEN Resolve("get_log_stream", tu)
    ELSE Cout

\* The lock_guard of get_log_stream (log.h:51) can be taken by thread t: the
\* mutex is free.  A mutex another thread owns makes t wait.
CanFetch(t) == log_mutex_[Resolve("get_log_stream", rec[t].tu)] = NoThread

\* log.h:51 reached by the thread that owns log_mutex_ through its record's
\* _lock_guard (log.h:68): std::mutex::lock() by the owner is undefined
\* behaviour.  The thread waits for itself forever, or lock() throws
\* std::system_error out of the noexcept destructor: std::terminate.
get_log_stream_relock(t) ==
    /\ ~aborted
    /\ pc[t] = "write"
    /\ log_mutex_[Resolve("get_log_stream", rec[t].tu)] = t
    /\ \/ /\ pc' = [pc EXCEPT ![t] = "deadlocked"]
          /\ aborted' = aborted
       \/ /\ aborted' = TRUE
          /\ pc' = pc
    /\ UNCHANGED <<WINDOWS, call_file, filename>>
    /\ UNCHANGED <<ANDROID, platform_log, link, log_mutex_, log_file, disk, console,
                   unflushed, color, callback, cb_calls, rec, slf, sets, log, made,
                   ncalls>>

\* log.h:137-150: the label of the level.
Label(level) ==
    CASE level = "Debug" -> <<"|Debug] ">>
      [] level = "Info"  -> <<"|Info ] ">>
      [] level = "Warn"  -> <<"|Warn ] ">>
      [] OTHER           -> <<"|Error] ">>

\* What each get_log_stream() << ... statement of the destructor inserts
\* (log.h:135, 137-150, 154, 155, 157), as one fragment per statement.
Part(r, stage, tm) ==
    CASE stage = 1 -> Frag(r.id, "time", <<"[">> \o strftime(tm))
      [] stage = 2 -> Frag(r.id, "label", Label(r.level))
      [] stage = 3 -> Frag(r.id, "msg", r.s)
      [] stage = 4 -> Frag(r.id, "loc", <<" (">> \o r.file \o <<":">> \o Dec(r.line) \o <<")">>)
      [] OTHER     -> Frag(r.id, "nl", <<"\n">>)

\* One get_log_stream() << ... statement: the stream is fetched and the
\* fragment inserted into it.
DtorWrite(t) ==
    /\ ~aborted
    /\ pc[t] = "write"
    /\ rec[t].stage \in 1..5
    /\ CanFetch(t)
    /\ \E tm \in Times :
          WriteTo(get_log_stream(rec[t].tu), Part(rec[t], rec[t].stage, tm))
    /\ rec' = [rec EXCEPT ![t].stage = @ + 1]
    /\ pc' = [pc EXCEPT ![t] = IF rec[t].stage = 2 THEN "reset_color" ELSE "write"]
    /\ UNCHANGED <<WINDOWS, call_file, filename>>
    /\ UNCHANGED <<ANDROID, platform_log, link, log_mutex_, log_file, color, callback,
                   cb_calls, slf, sets, log, made, ncalls, aborted>>

\* log.h:152 set_color(Color::Reset)
DtorResetColor(t) ==
    /\ ~aborted
    /\ pc[t] = "reset_color"
    /\ set_color("Reset")
    /\ pc' = [pc EXCEPT ![t] = "write"]
    /\ UNCHANGED <<WINDOWS, call_file, filename>>
    /\ UNCHANGED <<ANDROID, platform_log, link, log_mutex_, log_file, disk, console,
                   unflushed, callback, cb_calls, rec, slf, sets, log, made, ncalls,
                   aborted>>

\* log.h:158-160: get_log_stream().flush(), then the destructor ends.
DtorFlush(t) ==
    /\ ~aborted
    /\ pc[t] = "write"
    /\ rec[t].stage = 6
    /\ CanFetch(t)
    /\ unflushed' = unflushed \ {get_log_stream(rec[t].tu)}
    /\ Release(t)
    /\ UNCHANGED <<WINDOWS, call_file, filename>>
    /\ UNCHANGED <<ANDROID, platform_log, link, log_file, disk, console, color,
                   callback, cb_calls, slf, sets, log, made, ncalls, aborted>>

\* ------------------------------------------------- the callback registry
\* log::subscribe (log_callback.h): the application registers or removes the
\* interception function at any time, without taking log_mutex_.  "handled"
\* is a function that returns true for every call, "pass" one that returns
\* false.
Subscribe(k) ==
    /\ ~aborted
    /\ callback # k
    /\ callback' = k
    /\ UNCHANGED <<WINDOWS, call_file, filename>>
    /\ UNCHANGED <<ANDROID, platform_log, link, log_mutex_, log_file, disk, console,
                   unflushed, color, cb_calls, pc, rec, slf, sets, log, made, aborted>>

\* A registration that is one of the calls the application makes.
SubscribeCall(k) == ncalls < MaxCalls /\ Subscribe(k) /\ ncalls' = ncalls + 1

\* A registration made by a part of the application whose calls are not
\* counted: it can come at any moment, any number of times.
SubscribeAnyTime(k) == Subscribe(k) /\ ncalls' = ncalls

\* ------------------------------------------------------------------- spec
Next ==
    \/ \E t \in Threads, c \in SetSites : set_log_file_lock(t, c.tu, c.path)
    \/ \E t \in Threads : set_log_file(t)
    \/ \E t \in Threads, c \in SitesOf("Debug") : LogDebugDetailed(t, c)
    \/ \E t \in Threads, c \in SitesOf("Info") : LogInfoDetailed(t, c)
    \/ \E t \in Threads, c \in SitesOf("Warn") : LogWarnDetailed(t, c)
    \/ \E t \in Threads, c \in SitesOf("Err") : LogErrDetailed(t, c)
    \/ \E t \in Threads : Insert(t)
    \/ \E t \in Threads : DtorCheck(t)
    \/ \E t \in Threads : DtorInvoke(t)
    \/ \E t \in Threads : DtorPlatform(t)
    \/ \E t \in Threads : DtorSetColor(t)
    \/ \E t \in Threads : get_log_stream_relock(t)
    \/ \E t \in Threads : DtorWrite(t)
    \/ \E t \in Threads : DtorResetColor(t)
    \/ \E t \in Threads : DtorFlush(t)
    \/ \E k \in {"none", "handled", "pass"} : SubscribeCall(k)

Spec == Init /\ [][Next]_vars

\* The builds in which the records of all units are written one at a time:
\* every build but those that inline the constructor (each unit's records
\* take the unit's own mutex) and link get_log_stream from the first unit,
\* where records of two other units are in their console branch together.
SerialBuilds ==
    {b \in Builds : b.ANDROID \/ b.link["LogDetailed"] = FirstTU
                                \/ b.link["get_log_stream"] = Inlined}
InitSerial ==
    Init /\ [WINDOWS |-> WINDOWS, ANDROID |-> ANDROID, link |-> link] \in SerialBuilds
SpecSerial == InitSerial /\ [][Next]_vars

\* The program with the registry changed at any moment, in the builds in
\* which records are written one at a time.
NextSubscribe ==
    \/ \E t \in Threads, c \in SetSites : set_log_file_lock(t, c.tu, c.path)
    \/ \E t \in Threads : set_log_file(t)
    \/ \E t \in Threads, c \in SitesOf("Debug") : LogDebugDetailed(t, c)
    \/ \E t \in Threads, c \in SitesOf("Info") : LogInfoDetailed(t, c)
    \/ \E t \in Threads, c \in SitesOf("Warn") : LogWarnDetailed(t, c)
    \/ \E t \in Threads, c \in SitesOf("Err") : LogErrDetailed(t, c)
    \/ \E t \in Threads : Insert(t)
    \/ \E t \in Threads : DtorCheck(t)
    \/ \E t \in Threads : DtorInvoke(t)
    \/ \E t \in Threads : DtorPlatform(t)
    \/ \E t \in Threads : DtorSetColor(t)
    \/ \E t \in Threads : get_log_stream_relock(t)
    \/ \E t \in Threads : DtorWrite(t)
    \/ \E t \in Threads : DtorResetColor(t)
    \/ \E t \in Threads : DtorFlush(t)
    \/ \E k \in {"none", "handled", "pass"} : SubscribeAnyTime(k)

SpecSubscribe == InitSerial /\ [][NextSubscribe]_vars

\* ------------------------------------------ the entry point macros alone
\* The paths __FILE__ may be: up to MaxPath characters, '/' among them, the
\* last one a character of the file's name.
PathChars == {"/", "a", "b", "c"}
FilePaths == {p \in UNION {[1..n -> PathChars] : n \in 1..MaxPath} : p[Len(p)] # "/"}

\* log.h:29-32 LogDebug() .. LogErr(): the macro is expanded in a source file
\* and passes FILENAME, evaluated there, as the filename of the record.
ExpandLogMacro ==
    /\ call_file # NoFile
    /\ ~filename.set
    /\ filename' = [set |-> TRUE, str |-> FILENAME(call_file)]
    /\ UNCHANGED <<WINDOWS, call_file, ANDROID, platform_log, link, log_mutex_,
                   log_file, disk, console, unflushed, color, callback, cb_calls, pc,
                   rec, slf, sets, log, made, ncalls, aborted>>

InitFILENAME ==
    /\ WINDOWS \in BOOLEAN
    /\ ANDROID = FALSE
    /\ link = [f \in Funcs |-> Inlined]
    /\ InitProcess
    /\ call_file \in FilePaths
    /\ filename = NotCaptured

NextFILENAME == ExpandLogMacro

SpecFILENAME == InitFILENAME /\ [][NextFILENAME]_vars

\* ---------------------------------------------------------------- helpers
Range(seq) == {seq[i] : i \in DOMAIN seq}
Files == {disk[p] : p \in Openable}
Sinks == {console} \cup Files

\* The fragments of record id in a sink, in the order written.
FragsOf(seq, id) == SelectSeq(seq, LAMBDA f : f.rec = id)

\* The history entry of a record whose dispatch has begun.
LogOf(id) == CHOOSE e \in Range(log) : e.id = id

\* Thread t is in the console/file branch of its record's destructor.
InSinkBranch(t) == pc[t] \in {"set_color", "write", "reset_color", "deadlocked"}

\* The fragments thread t has inserted so far in that branch.
WrittenBy(t) ==
    [i \in 1..(rec[t].stage - 1) |-> Part(rec[t], i, CHOOSE tm \in Times : TRUE)]

\* The set_log_file call that had returned last when the dispatch of thread
\* t's record began (only if there is one).
Returned(t) == LogOf(rec[t].id).seen
LastSet(t) == sets[Returned(t)]

\* ------------------------------------------------------------------ claims

\* C1: every line that reaches a sink is contiguous: no fragment of one
\* record's dispatch lies between two fragments of another record's dispatch.
C1_LinesNotInterleaved ==
    \A seq \in Sinks :
        \A i, j, k \in DOMAIN seq :
            (i < j /\ j < k /\ seq[i].rec # 0 /\ seq[j].rec # 0
                /\ seq[i].rec = seq[k].rec)
            => seq[j].rec = seq[i].rec

\* C2: a dispatch that the interception did not suppress terminates: the
\* thread that owns the lock through its record is never left waiting for
\* that lock in get_log_stream.
C2_OwnerNeverWaitsForOwnLock ==
    \A t \in Threads : pc[t] # "deadlocked"

\* A returned set_log_file call that opened its path on a stream that had no
\* file, and one whose path the file system cannot open.
Succeeded(c) == ~is_open(c.before) /\ is_open(c.after) /\ c.after.path = c.path
Unopenable(c) == c.path \notin Openable

\* The dispatch of thread t's record has got as far as it has without
\* stopping, and everything it has inserted is in sink seq and nowhere else.
LineGoesTo(t, seq) ==
    /\ pc[t] # "deadlocked"
    /\ FragsOf(seq, rec[t].id) = WrittenBy(t)
    /\ \A other \in Sinks \ {seq} : FragsOf(other, rec[t].id) = <<>>

\* C3: after a set_log_file call that opened its path, a dispatch the
\* interception does not suppress puts its whole line at the end of that file,
\* in the console format, and what the file held before stays.
C3_LineAppendedToFile ==
    /\ \A t \in Threads :
        (InSinkBranch(t) /\ Returned(t) > 0 /\ Succeeded(LastSet(t)))
        => /\ LineGoesTo(t, disk[LastSet(t).path])
           /\ SubSeq(disk[LastSet(t).path],
                     Len(disk[LastSet(t).path]) - Len(WrittenBy(t)) + 1,
                     Len(disk[LastSet(t).path])) = WrittenBy(t)
    /\ disk["p"][1] = Old

\* C4: a set_log_file call with a path that cannot be opened, made while the
\* console is the sink, leaves the console the sink, and a later dispatch the
\* interception does not suppress completes with its line on the console.
C4_ConsoleAfterFailedOpen ==
    /\ \A i \in DOMAIN sets :
        (Unopenable(sets[i]) /\ ~is_open(sets[i].before)) => ~is_open(sets[i].after)
    /\ \A t \in Threads :
        (InSinkBranch(t) /\ Returned(t) > 0 /\ Unopenable(LastSet(t))
            /\ ~is_open(LastSet(t).before))
        => LineGoesTo(t, console)

\* The record was passed to an interception function that handled it.
Handled(id) == \E i \in DOMAIN cb_calls : cb_calls[i].id = id /\ cb_calls[i].handled

\* C5: a dispatch the interception function handles writes nothing (no line
\* fragment, no platform entry, no color change) and ends with the lock
\* released; a dispatch it does not handle produces the normal output.
C5_HandledSuppressesElseNormalOutput ==
    /\ \A id \in DOMAIN made :
        Handled(id) =>
            /\ \A seq \in Sinks : FragsOf(seq, id) = <<>>
            /\ \A i \in DOMAIN platform_log : platform_log[i].id # id
            /\ \A t \in Threads : rec[t].id # id
    /\ (\A id \in DOMAIN made : Handled(id)) => color = "Reset"
    /\ \A t \in Threads :
        (InSinkBranch(t) /\ ~Handled(rec[t].id)) => pc[t] # "deadlocked"

\* C6: whenever the path of a set_log_file call can be opened, the sink is
\* that file once the call has returned, whether the console or another file
\* was the sink before, and the lines dispatched afterwards go to it.
C6_SinkFollowsEveryOpenablePath ==
    /\ \A i \in DOMAIN sets :
        (sets[i].path \in Openable /\ sets[i].before.path # sets[i].path)
        => sets[i].after = [path |-> sets[i].path, failbit |-> FALSE]
    /\ \A t \in Threads :
        (InSinkBranch(t) /\ Returned(t) > 0 /\ LastSet(t).path \in Openable)
        => LineGoesTo(t, disk[LastSet(t).path])

\* C7: a set_log_file call whose path cannot be opened writes the failure
\* notice to the console and leaves the sink as it was: the console, or the
\* file opened before, which still takes what is inserted.
C7_FailedOpenNoticedSinkUnchanged ==
    \A i \in DOMAIN sets :
        Unopenable(sets[i])
        => /\ \E n \in DOMAIN sets[i].notices : sets[i].notices[n].part = "failed"
           /\ sets[i].after.path = sets[i].before.path
           /\ is_open(sets[i].before) => ~sets[i].after.failbit

RECURSIVE Concat(_)
\* The texts of the values, one after the other.
Concat(values) ==
    IF values = <<>> THEN <<>> ELSE ToText(Head(values)) \o Concat(Tail(values))

\* Everything written to the console and the files.
AllFrags == console \o disk["p"] \o disk["q"]

\* C8: a record is dispatched once, at the end of its scope and not before:
\* the interception function is invoked at most once per record, with the
\* level of the entry point, the texts of the inserted values in order and the
\* file and line of the call site; at most one line (one fragment of each
\* part, one platform entry) is written per record, its message being that
\* same text; and nothing of a record is dispatched while it is still open.
C8_DispatchedOnceAtScopeEnd ==
    /\ \A i, j \in DOMAIN cb_calls : cb_calls[i].id = cb_calls[j].id => i = j
    /\ \A i \in DOMAIN cb_calls :
        /\ cb_calls[i].level = made[cb_calls[i].id].level
        /\ cb_calls[i].message = Concat(made[cb_calls[i].id].values)
        /\ cb_calls[i].file = FILENAME(FILE(made[cb_calls[i].id].tu))
        /\ cb_calls[i].line = made[cb_calls[i].id].line
    /\ \A i, j \in DOMAIN AllFrags :
        (AllFrags[i].rec # 0 /\ AllFrags[i].rec = AllFrags[j].rec
            /\ AllFrags[i].part = AllFrags[j].part) => i = j
    /\ \A i \in DOMAIN AllFrags :
        AllFrags[i].part = "msg" => AllFrags[i].txt = Concat(made[AllFrags[i].rec].values)
    /\ \A i, j \in DOMAIN platform_log : platform_log[i].id = platform_log[j].id => i = j
    /\ \A t \in Threads :
        pc[t] = "open" =>
            /\ \A i \in DOMAIN cb_calls : cb_calls[i].id # rec[t].id
            /\ \A i \in DOMAIN AllFrags : AllFrags[i].rec # rec[t].id
            /\ \A i \in DOMAIN platform_log : platform_log[i].id # rec[t].id

\* C8 witness: a record into which two values were inserted has been passed
\* to the interception function, which did not handle it, and its whole line
\* has been written.
C8_Witness ==
    \E i \in DOMAIN cb_calls :
        /\ cb_calls[i].message = <<"x=", "1", "7">>
        /\ ~cb_calls[i].handled
        /\ Len(FragsOf(AllFrags, cb_calls[i].id)) = 5

\* C9: one lock and one sink for the whole process: records of call sites in
\* different source files are never open at the same time, and after a
\* set_log_file call that opened its path, get_log_stream gives that file
\* whichever source file the log statement is in.
C9_OneLockOneSink ==
    /\ \A t, u \in Threads : (rec[t].id # 0 /\ rec[u].id # 0) => t = u
    /\ (sets # <<>> /\ Succeeded(sets[Len(sets)]))
        => \A tu \in TUs :
            /\ get_log_stream(tu) # Cout
            /\ log_file[get_log_stream(tu)].path = sets[Len(sets)].path

\* C10: the body of set_log_file never runs while a log record is open.
C10_NoSinkSelectionWhileRecordOpen ==
    \A t, u \in Threads : pc[t] = "set_log_file" => rec[u].id = 0

RECURSIVE Chars(_)
\* The characters of a sequence of texts, as one string.
Chars(seq) == IF seq = <<>> THEN "" ELSE Head(seq) \o Chars(Tail(seq))

\* The characters of the fragments a sink received from record id.
CharsOf(seq, id) ==
    Chars([i \in DOMAIN FragsOf(seq, id) |-> Chars(FragsOf(seq, id)[i].txt)])

\* The dispatch of record id has ended (its record is gone) without the
\* interception function handling it.
Completed(id) ==
    /\ \E i \in DOMAIN log : log[i].id = id
    /\ \A t \in Threads : rec[t].id # id
    /\ ~Handled(id)

\* The time of day as HH:MM:SS.
HHMMSS(tm) == Chars(Two(tm.h)) \o ":" \o Chars(Two(tm.m)) \o ":" \o Chars(Two(tm.s))

\* The fixed-width label of a level.
LevelLabel(level) ==
    CASE level = "Debug" -> "Debug"
      [] level = "Info"  -> "Info "
      [] level = "Warn"  -> "Warn "
      [] OTHER           -> "Error"

\* The line of a log statement at call site c, dispatched at time tm.
Line(c, level, tm) ==
    "[" \o HHMMSS(tm) \o "|" \o LevelLabel(level) \o "] " \o Chars(Concat(c.values))
        \o " (" \o Chars(FILENAME(FILE(c.tu))) \o ":" \o Chars(Dec(c.line)) \o ")" \o "\n"

\* C11: a dispatch on the console/file target that the interception function
\* does not handle writes its line: it is not left waiting before the line is
\* complete, and once it has ended, one sink holds for the record exactly the
\* characters "[HH:MM:SS|label] message (file:line)" and a newline, with the
\* label of the entry point used, and no other sink holds anything of it.
C11_LineFormat ==
    /\ \A t \in Threads : InSinkBranch(t) => pc[t] # "deadlocked"
    /\ \A id \in DOMAIN made :
        (~ANDROID /\ Completed(id))
        => \E seq \in Sinks :
              /\ \E tm \in Times : CharsOf(seq, id) = Line(made[id], made[id].level, tm)
              /\ \A other \in Sinks \ {seq} : FragsOf(other, id) = <<>>

\* The path has a '/' at k and none after it.
LastSlash(path, k) ==
    /\ path[k] = "/"
    /\ \A j \in DOMAIN path : j > k => path[j] # "/"

\* The captured file is the path without its directory components: what
\* follows the last '/', the whole path if it has none, and no '/' in it.
Stripped(path, name) ==
    /\ "/" \notin Range(path) => name = path
    /\ \A k \in DOMAIN path :
          LastSlash(path, k) => name = SubSeq(path, k + 1, Len(path))
    /\ "/" \notin Range(name)

\* C12 as stated: in every build, the source file a log entry point captures
\* is the call site's path with all directory components removed.
C12_DirectoryStripped ==
    filename.set => Stripped(call_file, filename.str)

\* C12 amended: in the builds that do not define WINDOWS, the source file a
\* log entry point captures is the call site's path with all directory
\* components removed.
C12_DirectoryStrippedUnlessWINDOWS ==
    (filename.set /\ ~WINDOWS) => Stripped(call_file, filename.str)

\* C12 witness: without WINDOWS, "/a/b/c" was captured as "c".
C12_Witness ==
    /\ ~WINDOWS
    /\ call_file = <<"/", "a", "/", "b", "/", "c">>
    /\ filename = [set |-> TRUE, str |-> <<"c">>]

\* The color of the console while thread t's dispatch writes the level tag,
\* and after it.
TagBeingWritten(t) ==
    \/ pc[t] = "write" /\ rec[t].stage \in {1, 2}
    \/ pc[t] = "reset_color"
TagWritten(t) == pc[t] = "write" /\ rec[t].stage >= 3

\* C13: in a console/file dispatch the interception function did not handle,
\* nothing of the line is written before the level's color is set, the time
\* and the level tag are written in that color, the message and what follows
\* after the color is reset, and the flush is the last step: once it is done
\* the console color is Reset and no sink holds unflushed output.
C13_ColorThenLineThenFlush ==
    /\ [](\A t \in Threads :
            /\ pc[t] = "set_color" => FragsOf(AllFrags, rec[t].id) = <<>>
            /\ TagBeingWritten(t) => color = LevelColor(rec[t].level)
            /\ TagWritten(t) => color = "Reset")
    /\ [][(\E t \in Threads : DtorFlush(t)) => (color' = "Reset" /\ unflushed' = {})]_vars

\* The platform log entry of a record of call site c: the message text, the
\* fixed tag and the priority of the level, and nothing else.
PlatformEntry(id, c) ==
    [id |-> id, tag |-> "Mavsdk",
     prio |-> CASE c.level = "Debug" -> "ANDROID_LOG_DEBUG"
                [] c.level = "Info"  -> "ANDROID_LOG_INFO"
                [] c.level = "Warn"  -> "ANDROID_LOG_WARN"
                [] OTHER             -> "ANDROID_LOG_ERROR",
     text |-> Concat(c.values)]

\* C14: on the ANDROID target, a dispatch the interception function did not
\* handle has, once it has ended, sent one entry to the platform log: the
\* message text with the tag "Mavsdk" and the priority of the record's level;
\* no record has two entries, a handled record has none, no dispatch writes a
\* line fragment to the console or to a file, and the console color is never
\* changed.
C14_PlatformLogOnly ==
    ANDROID =>
        /\ \A id \in DOMAIN made :
              Completed(id) =>
                  \E i \in DOMAIN platform_log : platform_log[i] = PlatformEntry(id, made[id])
        /\ \A i, j \in DOMAIN platform_log :
              platform_log[i].id = platform_log[j].id => i = j
        /\ \A i \in DOMAIN platform_log :
              /\ platform_log[i] = PlatformEntry(platform_log[i].id, made[platform_log[i].id])
              /\ ~Handled(platform_log[i].id)
        /\ \A seq \in Sinks : \A i \in DOMAIN seq : seq[i].rec = 0
        /\ disk = [p \in Openable |-> IF p = "p" THEN <<Old>> ELSE <<>>]
        /\ color = "Reset"

\* C14 witness: on the ANDROID target the dispatch of a Warn record with the
\* text "5%" has ended, after an interception function that did not handle it,
\* and its entry is in the platform log.
C14_Witness ==
    /\ ANDROID
    /\ \E i \in DOMAIN platform_log :
          /\ platform_log[i].prio = "ANDROID_LOG_WARN"
          /\ platform_log[i].text = <<"5", "%">>
          /\ Completed(platform_log[i].id)
          /\ \E j \in DOMAIN cb_calls : cb_calls[j].id = platform_log[i].id

\* C15: a set_log_file call writes the notice "Opened log file: <path>" only
\* if it opened the file, which is then the sink; a call that failed to open
\* its path writes the failure notice and no other.
C15_OpenedNoticeOnlyAfterOpening ==
    \A i \in DOMAIN sets :
        /\ (\E n \in DOMAIN sets[i].notices : sets[i].notices[n].part = "opened")
            => /\ Succeeded(sets[i])
               /\ ~sets[i].after.failbit
        /\ ~Succeeded(sets[i])
            => sets[i].notices =
                  <<Frag(0, "failed", <<"Failed to open log file: ", sets[i].path, "\n">>)>>

\* The function an invocation called, by what it returned.
Invoked(call) == IF call.handled THEN "handled" ELSE "pass"

\* C16: whatever registrations and removals come between the presence check
\* of a dispatch and its invocation, the dispatch never invokes an empty
\* function, and the function it invokes is the one whose presence it checked.
C16_InvokesTheFunctionChecked ==
    /\ \A t \in Threads : pc[t] # "bad_function_call"
    /\ \A i \in DOMAIN cb_calls : Invoked(cb_calls[i]) = LogOf(cb_calls[i].id).fn

====
